---- MODULE Spec2Model ----
(***************************************************************************)
(* TickerToCIK: get_CIKs resolves a collection of tickers to CIKs, either  *)
(* sequentially or with one thread per ticker, the dispatching loop being  *)
(* throttled by a Timer thread (src/tickerToCIK.py, src/timer.py).         *)
(*                                                                         *)
(* Time is counted in whole seconds: Tick is the passing of one second of  *)
(* the running timer, and every other action takes no time of its own but  *)
(* may be delayed for any number of ticks (nothing in the code bounds how  *)
(* long a step takes).  Seconds that pass while no timer runs change       *)
(* nothing the program reads and are not counted: `now` is a lower bound   *)
(* of the time a call has taken.                                           *)
(***************************************************************************)
EXTENDS Integers, Sequences, FiniteSets, TLC

VARIABLES
    tickers,          \* the tickers argument of get_CIKs, as the sequence it iterates to
    tickersIterable,  \* whether the tickers argument has __iter__ or __next__
    server,           \* what the SEC endpoint answers for each symbol (fixed: deterministic)
    flag,             \* enableMultiThreading of the call in progress
    pc,               \* where the calling thread is in get_CIKs / _get_CIKs_multithread
    exc,              \* the exception the call raised ("none" when it did not)
    output,           \* the dict being filled
    threads,          \* the list `threads`: one record per worker thread spawned
    timer,            \* the Timer object: its _thread attribute and whether that thread sleeps
    pos,              \* enumerate's position in the dispatching / sequential loop
    i,                \* the counter `i` of _get_CIKs_multithread
    j,                \* how many threads the join loop has joined
    now,              \* seconds the call has taken so far (those counted by its timers)
    fetchesInWindow,  \* get_CIK invocations that sent their request since the timer was started, while it ran
    httpRequests,     \* HTTP GETs sent during the call
    prev,             \* how the previous call of get_CIKs that passed the validation ended
    windowOpenedAt,   \* the value of `now` when the running timer was started
    admitsSinceTick   \* threads the dispatching loop has started since the last second passed

vars == << tickers, tickersIterable, server, flag, pc, exc, output, threads,
           timer, pos, i, j, now, fetchesInWindow, httpRequests, prev,
           windowOpenedAt, admitsSinceTick >>

---------------------------------------------------------------------------
(* Program constants *)

numberOfConnectionsPerSecond == 5

WindowSeconds == 1

(* Bounds of the model *)

MaxShort == 2

MaxLen == 6

---------------------------------------------------------------------------
(* Values *)

None == "None"

Missing == "<no key>"

Symbols == {"AAPL", "MSFT"}

Tickers == {"AAPL", "AAPL\n", "MSFT"}

Elems == Tickers \cup {None}

Responses == {"match", "nomatch", "notok", "neterr"}

FlagValues == {"True", "False", "1"}

CIKOf == [s \in Symbols |-> IF s = "AAPL" THEN "320193" ELSE "789019"]

EmptyDict == [k \in Elems |-> Missing]

Keys(d) == {k \in Elems : d[k] # Missing}

SetItem_DropsTheOtherKeys(d, k, v) == [EmptyDict EXCEPT ![k] = v]

\* d.__setitem__(k, v), one indivisible call of the interpreter
SetItem(d, k, v) == [d EXCEPT ![k] = v]

SeqsUpTo(S, n) == UNION {[1..m -> S] : m \in 0..n}

LongInput(n) == [k \in 1..n |-> IF k % 2 = 1 THEN "AAPL" ELSE "MSFT"]

Inputs == SeqsUpTo(Elems, MaxShort) \cup {LongInput(n) : n \in (MaxShort + 1)..MaxLen}

NoTimer == [attr |-> "unbound", left |-> 0, leaked |-> << >>]

NoCall == [kind |-> "none", flag |-> "none", exc |-> "none", output |-> EmptyDict]

---------------------------------------------------------------------------
(* get_CIK: the fetch of one ticker *)

\* ticker.strip().replace("\n", "") of the URL
Strip(ticker) == IF ticker = "AAPL\n" THEN "AAPL" ELSE ticker

Returns(v, n) == [kind |-> "return", val |-> v, exc |-> "none", gets |-> n]

Raises(e, n) == [kind |-> "raise", val |-> None, exc |-> e, gets |-> n]

\* What get_CIK(ticker) does against the endpoint srv: the value it returns or the
\* exception it raises, and how many GETs it sent.  A ticker that is None has no
\* strip(); the first get() raises on a transport error; the second get() fetches
\* the body; the assert raises on a response that is not OK; a body without the
\* pattern gives None.
get_CIK_FormatsAnyTicker(ticker, srv) ==
    LET r == IF ticker = None THEN "nomatch" ELSE srv[Strip(ticker)] IN
    CASE r = "neterr"  -> Raises("ConnectionError", 1)
      [] r = "notok"   -> Raises("AssertionError", 2)
      [] r = "nomatch" -> Returns(None, 2)
      [] OTHER         -> Returns(CIKOf[Strip(ticker)], 2)

get_CIK(ticker, srv) ==
    IF ticker = None THEN Raises("AttributeError", 0)
    ELSE LET r == srv[Strip(ticker)] IN
         CASE r = "neterr"  -> Raises("ConnectionError", 1)
           [] r = "notok"   -> Raises("AssertionError", 2)
           [] r = "nomatch" -> Returns(None, 2)
           [] OTHER         -> Returns(CIKOf[Strip(ticker)], 2)

---------------------------------------------------------------------------
(* Timer *)

\* A Timer is its _thread attribute ("None", a "Thread", or "deleted"), the
\* seconds the thread of that attribute still sleeps (0: it has ended, or there is
\* none), and the seconds still to sleep of the threads start() has replaced
\* while they slept
TimerInit == [attr |-> "None", left |-> 0, leaked |-> << >>]

\* The thread of _thread is forgotten: if it still sleeps it goes on sleeping
Forget(t) == IF t.left > 0 THEN Append(t.leaked, t.left) ELSE t.leaked

\* start() binds _thread to a new thread that sleeps `seconds`
TimerStart(t, seconds) == [attr |-> "Thread", left |-> seconds, leaked |-> Forget(t)]

TimerAlive(t) == t.left > 0

\* The timer threads of this Timer that are alive
TimerThreads(t) == (IF TimerAlive(t) THEN 1 ELSE 0) + Len(t.leaked)

IsPositive(n) == n > 0

\* One second of sleep passes for every thread of the Timer
TimerSleep(t) ==
    [t EXCEPT !.left = IF @ > 0 THEN @ - 1 ELSE 0,
              !.leaked = SelectSeq([k \in 1..Len(@) |-> @[k] - 1], IsPositive)]

TimerWaitBlocks_Never(t) == FALSE

\* wait() blocks in join() while the thread sleeps
TimerWaitBlocks(t) == t.attr = "Thread" /\ TimerAlive(t)

\* wait() reads self._thread, which a previous wait() deleted
TimerWaitRaises(t) == t.attr = "deleted"

\* wait() once join() has returned: `del self._thread`, or nothing for a Timer
\* never started
TimerWait(t) ==
    IF t.attr = "Thread" THEN [attr |-> "deleted", left |-> 0, leaked |-> Forget(t)] ELSE t

---------------------------------------------------------------------------
(* get_CIKs *)

Validate_FlagUnchecked(tk, iterable, fl) ==
    IF ~iterable THEN "TypeError" ELSE "none"

Validate_RejectsEmpty(tk, iterable, fl) ==
    IF ~iterable THEN "TypeError"
    ELSE IF fl \notin {"True", "False"} \/ tk = << >> THEN "ValueError"
    ELSE "none"

\* The parameter validation: the exception it raises, or "none"
Validate(tk, iterable, fl) ==
    IF ~iterable THEN "TypeError"
    ELSE IF fl \notin {"True", "False"} THEN "ValueError"
    ELSE "none"

NewThread(ticker) == [ticker |-> ticker, state |-> "ready"]

Terminated(th) == th.state \in {"done", "died"}

NeedWait_OneLate(p, c) == p - c > numberOfConnectionsPerSecond

NeedWait_Never(p, c) == FALSE

\* The throttling condition of the dispatching loop
NeedWait(p, c) == p - c >= numberOfConnectionsPerSecond

JoinReturns_Started(th) == th.state # "ready"

\* thread.join() returns
JoinReturns(th) == Terminated(th)

UseThreads_Always(fl) == TRUE

\* `if not enableMultiThreading: ... else: ...` of get_CIKs, for a flag that passed
\* the validation
UseThreads(fl) == fl # "False"

FreshDict_LeftByLastCall == prev.output

\* `output = {}`: every call fills a dict of its own
FreshDict == EmptyDict

\* The symbols the tickers of the input ask the endpoint for
Asked(input) == {Strip(input[k]) : k \in {m \in 1..Len(input) : input[m] # None}}

\* The endpoints a batch is run against: for the short inputs every answer to the
\* symbols asked for (the answer to a symbol never asked for is never read, and is
\* left at "match"), and for the long inputs the endpoints that answer every
\* symbol alike with a CIK or an error
Servers(input) ==
    IF Len(input) <= MaxShort
      THEN {srv \in [Symbols -> Responses] :
              \A s \in Symbols \ Asked(input) : srv[s] = "match"}
      ELSE {[s \in Symbols |-> r] : r \in {"match", "notok"}}

Init ==
    /\ tickersIterable \in BOOLEAN
    /\ tickers \in (IF tickersIterable THEN Inputs ELSE {<< >>})
    /\ server \in Servers(tickers)
    /\ flag = "none"
    /\ pc = "idle"
    /\ exc = "none"
    /\ output = EmptyDict
    /\ threads = << >>
    /\ timer = NoTimer
    /\ pos = 0
    /\ i = 0
    /\ j = 0
    /\ now = 0
    /\ fetchesInWindow = 0
    /\ httpRequests = 0
    /\ prev = NoCall
    /\ windowOpenedAt = 0
    /\ admitsSinceTick = 0

\* get_CIKs(tickers, fl) is called: the validation, then either the sequential loop
\* or _get_CIKs_multithread up to its loop (the Timer is made and started).
Call(fl) ==
    /\ pc = "idle"
    /\ flag' = fl
    /\ now' = 0
    /\ output' = FreshDict
    /\ threads' = << >>
    /\ pos' = 0
    /\ i' = 0
    /\ j' = 0
    /\ fetchesInWindow' = 0
    /\ httpRequests' = 0
    /\ exc' = Validate(tickers, tickersIterable, fl)
    /\ IF exc' # "none"
         THEN pc' = "raised" /\ timer' = NoTimer
         ELSE IF ~UseThreads(fl)
         THEN pc' = "seq" /\ timer' = NoTimer
         ELSE pc' = "loop" /\ timer' = TimerStart(TimerInit, WindowSeconds)
    /\ windowOpenedAt' = 0
    /\ admitsSinceTick' = 0
    /\ UNCHANGED << tickers, tickersIterable, server, prev >>

(* The sequential loop *)

\* get_CIK(ticker) is entered for the next ticker: its first GET is sent
SeqBegin ==
    /\ pc = "seq"
    /\ pos < Len(tickers)
    /\ LET r == get_CIK(tickers[pos + 1], server) IN
         IF r.gets = 0
           THEN pc' = "raised" /\ exc' = r.exc /\ UNCHANGED httpRequests
           ELSE pc' = "seqfetch" /\ httpRequests' = httpRequests + 1 /\ UNCHANGED exc
    /\ UNCHANGED << tickers, tickersIterable, server, flag, output, threads, timer,
                    pos, i, j, now, fetchesInWindow, prev,
                    windowOpenedAt, admitsSinceTick >>

\* get_CIK returns or raises; the value returned is stored under the ticker
SeqEnd ==
    /\ pc = "seqfetch"
    /\ LET t == tickers[pos + 1]
           r == get_CIK(t, server)
       IN /\ httpRequests' = httpRequests + (r.gets - 1)
          /\ IF r.kind = "raise"
               THEN pc' = "raised" /\ exc' = r.exc /\ UNCHANGED << output, pos >>
               ELSE /\ pc' = "seq"
                    /\ output' = SetItem(output, t, r.val)
                    /\ pos' = pos + 1
                    /\ UNCHANGED exc
    /\ UNCHANGED << tickers, tickersIterable, server, flag, threads, timer,
                    i, j, now, fetchesInWindow, prev,
                    windowOpenedAt, admitsSinceTick >>

SeqExit ==
    /\ pc = "seq"
    /\ pos = Len(tickers)
    /\ pc' = "complete"
    /\ UNCHANGED << tickers, tickersIterable, server, flag, exc, output, threads,
                    timer, pos, i, j, now, fetchesInWindow, httpRequests, prev,
                    windowOpenedAt, admitsSinceTick >>

(* _get_CIKs_multithread *)

\* One turn of the dispatching loop: with the quota of this window used up the
\* dispatcher calls timer.wait(); otherwise it spawns the thread of this ticker.
LoopHead ==
    /\ pc = "loop"
    /\ pos < Len(tickers)
    /\ IF NeedWait(pos, i)
         THEN pc' = "wait" /\ UNCHANGED << threads, pos, admitsSinceTick >>
         ELSE /\ threads' = Append(threads, NewThread(tickers[pos + 1]))
              /\ pos' = pos + 1
              /\ admitsSinceTick' = admitsSinceTick + 1
              /\ UNCHANGED pc
    /\ UNCHANGED << tickers, tickersIterable, server, flag, exc, output, timer,
                    i, j, now, fetchesInWindow, httpRequests, prev, windowOpenedAt >>

\* timer.wait() returns; the timer is started again, i is set, the thread is spawned
WaitReturn ==
    /\ pc = "wait"
    /\ ~TimerWaitBlocks(timer)
    /\ IF TimerWaitRaises(timer)
         THEN /\ pc' = "raised"
              /\ exc' = "AttributeError"
              /\ UNCHANGED << timer, i, threads, pos, fetchesInWindow,
                              windowOpenedAt, admitsSinceTick >>
         ELSE /\ timer' = TimerStart(TimerWait(timer), WindowSeconds)
              /\ windowOpenedAt' = now
              /\ admitsSinceTick' = admitsSinceTick + 1
              /\ fetchesInWindow' = 0
              /\ i' = pos
              /\ threads' = Append(threads, NewThread(tickers[pos + 1]))
              /\ pos' = pos + 1
              /\ pc' = "loop"
              /\ UNCHANGED exc
    /\ UNCHANGED << tickers, tickersIterable, server, flag, output, j, now,
                    httpRequests, prev >>

LoopExit ==
    /\ pc = "loop"
    /\ pos = Len(tickers)
    /\ pc' = "join"
    /\ j' = 0
    /\ admitsSinceTick' = 0
    /\ UNCHANGED << tickers, tickersIterable, server, flag, exc, output, threads,
                    timer, pos, i, now, fetchesInWindow, httpRequests, prev,
                    windowOpenedAt >>

\* thread.join() of the next thread of the list returns
Join ==
    /\ pc = "join"
    /\ j < Len(threads)
    /\ JoinReturns(threads[j + 1])
    /\ j' = j + 1
    /\ UNCHANGED << tickers, tickersIterable, server, flag, pc, exc, output, threads,
                    timer, pos, i, now, fetchesInWindow, httpRequests, prev,
                    windowOpenedAt, admitsSinceTick >>

JoinExit ==
    /\ pc = "join"
    /\ j = Len(threads)
    /\ pc' = "complete"
    /\ UNCHANGED << tickers, tickersIterable, server, flag, exc, output, threads,
                    timer, pos, i, j, now, fetchesInWindow, httpRequests, prev,
                    windowOpenedAt, admitsSinceTick >>

(* The worker threads *)

\* Worker k runs: get_CIK(ticker) is entered and sends its first GET
WorkerBegin(k) ==
    /\ threads[k].state = "ready"
    /\ LET r == get_CIK(threads[k].ticker, server) IN
         IF r.gets = 0
           THEN /\ threads' = [threads EXCEPT ![k].state = "died"]
                /\ UNCHANGED << httpRequests, fetchesInWindow >>
           ELSE /\ threads' = [threads EXCEPT ![k].state = "fetching"]
                /\ httpRequests' = httpRequests + 1
                /\ fetchesInWindow' = IF TimerAlive(timer) THEN fetchesInWindow + 1
                                                     ELSE fetchesInWindow
    /\ UNCHANGED << tickers, tickersIterable, server, flag, pc, exc, output, timer,
                    pos, i, j, now, prev,
                    windowOpenedAt, admitsSinceTick >>

\* get_CIK of worker k returns and output.__setitem__ stores the value, or it
\* raises and the thread dies
WorkerEnd(k) ==
    /\ threads[k].state = "fetching"
    /\ LET t == threads[k].ticker
           r == get_CIK(t, server)
       IN /\ httpRequests' = httpRequests + (r.gets - 1)
          /\ IF r.kind = "raise"
               THEN /\ threads' = [threads EXCEPT ![k].state = "died"]
                    /\ UNCHANGED output
               ELSE /\ threads' = [threads EXCEPT ![k].state = "done"]
                    /\ output' = SetItem(output, t, r.val)
    /\ UNCHANGED << tickers, tickersIterable, server, flag, pc, exc, timer,
                    pos, i, j, now, fetchesInWindow, prev,
                    windowOpenedAt, admitsSinceTick >>

\* One second passes for the sleeping timer threads
Tick ==
    /\ pc # "idle"
    /\ TimerThreads(timer) > 0
    /\ now' = now + 1
    /\ timer' = TimerSleep(timer)
    /\ admitsSinceTick' = 0
    /\ UNCHANGED << tickers, tickersIterable, server, flag, pc, exc, output, threads,
                    pos, i, j, fetchesInWindow, httpRequests, prev, windowOpenedAt >>

\* The call is over: get_CIKs returns its dict or the exception leaves it.  prev
\* keeps the outcome of the last call that passed the validation.
Return ==
    /\ pc \in {"complete", "raised"}
    /\ prev' = IF Validate(tickers, tickersIterable, flag) # "none" THEN prev
               ELSE [kind |-> IF pc = "complete" THEN "returned" ELSE "raised",
                     flag |-> flag, exc |-> exc,
                     output |-> IF pc = "complete" THEN output ELSE EmptyDict]
    /\ pc' = "idle"
    /\ flag' = "none"
    /\ exc' = "none"
    /\ output' = EmptyDict
    /\ threads' = << >>
    /\ timer' = NoTimer
    /\ pos' = 0
    /\ i' = 0
    /\ j' = 0
    /\ now' = 0
    /\ fetchesInWindow' = 0
    /\ httpRequests' = 0
    /\ windowOpenedAt' = 0
    /\ admitsSinceTick' = 0
    /\ UNCHANGED << tickers, tickersIterable, server >>

Next ==
    \/ \E fl \in FlagValues : Call(fl)
    \/ SeqBegin
    \/ SeqEnd
    \/ SeqExit
    \/ LoopHead
    \/ WaitReturn
    \/ LoopExit
    \/ Join
    \/ JoinExit
    \/ \E k \in 1..Len(threads) : WorkerBegin(k)
    \/ \E k \in 1..Len(threads) : WorkerEnd(k)
    \/ Tick
    \/ Return

Spec == Init /\ [][Next]_vars

---------------------------------------------------------------------------
(* Properties *)

Range(q) == {q[k] : k \in 1..Len(q)}

\* The call in progress passed the validation
ValidCall == pc # "idle" /\ tickersIterable /\ flag \in {"True", "False"}

\* Every element of the input is a string
AllStrings == Range(tickers) \subseteq Tickers

\* get_CIK raises for this ticker
LookupRaises(t) == get_CIK(t, server).kind = "raise"

\* C1: for a non-empty sequence of identifiers and either value of the flag, the
\* dict get_CIKs returns has exactly the distinct input identifiers as its keys,
\* whatever each fetch did (a value, no match, or a failure).
C1_KeysAreTheDistinctInputs ==
    (pc = "complete" /\ Len(tickers) > 0 /\ AllStrings)
        => Keys(output) = Range(tickers)

\* C2: in concurrent mode, from the start of a timer until it has run out, at most
\* numberOfConnectionsPerSecond fetches begin.
C2_AtMostFiveFetchesPerWindow ==
    flag = "True" => fetchesInWindow <= numberOfConnectionsPerSecond

Phase ==
    CASE pc = "idle"             -> 0
      [] pc \in {"loop", "wait"} -> 1
      [] pc = "join"             -> 2
      [] pc = "complete"         -> 3
      [] OTHER                   -> 9

\* C3: a concurrent call is complete only once every thread it spawned has
\* terminated, by returning or by raising; its phases follow one another as Idle,
\* Dispatching, AwaitingCompletion, Complete, and no thread is spawned from
\* AwaitingCompletion on.
C3_ReturnsAfterEveryWorkerEnded ==
    /\ [](pc = "complete" /\ flag = "True"
            => /\ Len(threads) = Len(tickers)
               /\ \A k \in 1..Len(threads) : Terminated(threads[k]))
    /\ [][(tickersIterable /\ (flag = "True" \/ flag' = "True"))
            => /\ Phase' = Phase \/ Phase' = Phase + 1 \/ (Phase = 3 /\ Phase' = 0)
               /\ (Phase \in {2, 3} /\ Phase' # 0 => Len(threads') = Len(threads))]_vars

C3_Witness ==
    /\ pc = "complete"
    /\ flag = "True"
    /\ \E k \in 1..Len(threads) : threads[k].state = "died"
    /\ \E k \in 1..Len(threads) : threads[k].state = "done"

\* C4: a lookup that fails (no match, a response that is not OK, a transport
\* error) is recorded as None under its identifier and never leaves get_CIKs as an
\* exception: in both modes the call goes on to the other identifiers.
C4_FailureIsRecordedAsNone ==
    (ValidCall /\ AllStrings)
        => /\ pc # "raised"
           /\ pc = "complete"
                => \A t \in Range(tickers) :
                      server[Strip(t)] # "match" => output[t] = None

\* C5: a sequential and a concurrent call on the same input against the same
\* deterministic endpoint return dicts with the same contents.
C5_BothModesReturnTheSame ==
    (pc = "complete" /\ AllStrings /\ prev.kind # "none"
       /\ prev.flag \in {"True", "False"} /\ prev.flag # flag)
        => prev.kind = "returned" /\ prev.output = output

\* Where no lookup of the input raises, the two modes do return the same
NoLookupRaises == \A t \in Range(tickers) : ~LookupRaises(t)

BothModesAgreeWithoutFailure ==
    (pc \in {"complete", "raised"} /\ tickersIterable /\ NoLookupRaises /\ prev.kind # "none"
       /\ prev.flag \in {"True", "False"} /\ flag \in {"True", "False"})
        => pc = "complete" /\ prev.kind = "returned" /\ prev.output = output

\* C6 as claimed: an empty sequence of identifiers makes get_CIKs raise, with no
\* fetch, no timer and no worker.
C6_EmptyInputIsRejected ==
    (ValidCall /\ tickers = << >>)
        => /\ pc = "raised"
           /\ httpRequests = 0
           /\ timer = NoTimer
           /\ threads = << >>

\* C6 as the code has it: an empty sequence of identifiers passes the validation
\* and get_CIKs returns an empty dict, with no fetch and no worker; the concurrent
\* call has started its timer, the sequential one has none.
C6_EmptyInputReturnsEmptyDict ==
    (ValidCall /\ tickers = << >>)
        => /\ pc \in {"seq", "loop", "join", "complete"}
           /\ exc = "none"
           /\ output = EmptyDict
           /\ httpRequests = 0
           /\ threads = << >>
           /\ timer.attr = (IF flag = "True" THEN "Thread" ELSE "unbound")

C6_Witness ==
    /\ pc = "complete"
    /\ tickersIterable
    /\ tickers = << >>
    /\ flag = "True"
    /\ TimerAlive(timer)

\* C7: a flag that is no bool, or a tickers argument that cannot be iterated,
\* makes get_CIKs raise at once: no fetch, no timer, no worker thread.
C7_BadArgumentsRaiseBeforeAnyWork ==
    (pc # "idle" /\ (~tickersIterable \/ flag \notin {"True", "False"}))
        => /\ pc = "raised"
           /\ exc = (IF tickersIterable THEN "ValueError" ELSE "TypeError")
           /\ httpRequests = 0
           /\ timer = NoTimer
           /\ threads = << >>
           /\ output = EmptyDict

C7_Witness ==
    /\ pc = "raised"
    /\ exc = "ValueError"
    /\ Len(tickers) > 0
    /\ AllStrings

RECURSIVE SumGets(_, _)
\* The GETs that the lookups of the first n elements of q send
SumGets(q, n) == IF n = 0 THEN 0 ELSE SumGets(q, n - 1) + get_CIK(q[n], server).gets

\* C8 as claimed: an input with a None element is rejected as a whole before any
\* request is sent.
C8_NullElementRejectsTheCall ==
    (ValidCall /\ None \in Range(tickers))
        => httpRequests = 0 /\ pc # "complete"

\* C8 as the code has it: nothing checks the elements.  No request is sent for the
\* None element and it gets no key.  The sequential call fetches the identifiers
\* before it and raises AttributeError on reaching it; the concurrent call never
\* raises: the thread of the None element dies, every other identifier is looked
\* up, and the dict is returned.
C8_NullElementOnlyFailsItsOwnLookup ==
    (ValidCall /\ None \in Range(tickers))
        => /\ output[None] = Missing
           /\ flag = "False"
                => /\ pc # "complete"
                   /\ \A k \in 1..pos : tickers[k] # None
                   /\ pc = "seqfetch" => tickers[pos + 1] # None
                   /\ (pc = "raised" /\ exc = "AttributeError")
                        => /\ tickers[pos + 1] = None
                           /\ httpRequests = SumGets(tickers, pos)
                           /\ \A k \in 1..pos : output[tickers[k]] # Missing
           /\ flag = "True"
                => /\ pc # "raised"
                   /\ \A k \in 1..Len(threads) :
                        threads[k].ticker = None => threads[k].state \in {"ready", "died"}
                   /\ pc = "complete"
                        => /\ httpRequests = SumGets(tickers, Len(tickers))
                           /\ \A t \in Range(tickers) \ {None} :
                                ~LookupRaises(t) => output[t] = get_CIK(t, server).val

C8_Witness ==
    /\ flag = "False"
    /\ pc = "raised"
    /\ exc = "AttributeError"
    /\ pos >= 1
    /\ httpRequests >= 2

---------------------------------------------------------------------------
(* The concurrent call on a longer input.  The dispatching loop reads nothing a   *)
(* worker writes (WorkersLeaveTheDispatcherAlone), so here the workers are run   *)
(* one at a time, in the order they were spawned.                                *)

GateCalls == 12

InitGate ==
    /\ tickersIterable = TRUE
    /\ tickers = LongInput(GateCalls)
    /\ server = [s \in Symbols |-> "match"]
    /\ flag = "none"
    /\ pc = "idle"
    /\ exc = "none"
    /\ output = EmptyDict
    /\ threads = << >>
    /\ timer = NoTimer
    /\ pos = 0
    /\ i = 0
    /\ j = 0
    /\ now = 0
    /\ fetchesInWindow = 0
    /\ httpRequests = 0
    /\ prev = NoCall
    /\ windowOpenedAt = 0
    /\ admitsSinceTick = 0

\* Worker k is the first one that has not terminated
FirstUnfinished(k) == \A m \in 1..(k - 1) : Terminated(threads[m])

NextGate ==
    \/ Call("True")
    \/ LoopHead
    \/ WaitReturn
    \/ LoopExit
    \/ Join
    \/ JoinExit
    \/ \E k \in 1..Len(threads) : FirstUnfinished(k) /\ WorkerBegin(k)
    \/ \E k \in 1..Len(threads) : FirstUnfinished(k) /\ WorkerEnd(k)
    \/ Tick
    \/ Return

SpecGate == InitGate /\ [][NextGate]_vars

\* In the full specification no step of a worker changes what the dispatcher reads
WorkersLeaveTheDispatcherAlone ==
    [][(\E k \in 1..Len(threads) : WorkerBegin(k) \/ WorkerEnd(k))
          => UNCHANGED << pc, pos, i, j, timer, now, flag, exc, Len(threads) >>]_vars

\* The admissions before which the dispatcher calls timer.wait(): the 6th, 11th, ...
WaitsBefore(n) == (n - 1) \div numberOfConnectionsPerSecond

\* C9 as claimed: the dispatcher waits exactly before admissions 6, 11, 16, ...,
\* so the 12th admission comes after two waits, at least 2 and fewer than 3 window
\* durations after the start.
C9_TwelveAdmissionsTakeUnderThreeWindows ==
    [][(tickersIterable /\ flag = "True" /\ pos' = pos + 1)
          => /\ (pc = "wait") <=> (pos > 0 /\ pos % numberOfConnectionsPerSecond = 0)
             /\ pos' = 12 => /\ WaitsBefore(pos') = 2
                             /\ now' >= 2 * WindowSeconds
                             /\ now' < 3 * WindowSeconds]_vars

\* C9 as the code has it: timer.wait() is called exactly before admissions 6, 11,
\* 16, ... and nowhere else, each call returning only once the running timer is
\* over; admission n comes after (n - 1) div 5 such calls and no sooner than that
\* many window durations after the start (12 admissions: two calls, at least 2
\* window durations).  How long the dispatcher takes beyond that is not bounded.
C9_WaitsBeforeEveryFifthAdmission ==
    [][(tickersIterable /\ flag = "True" /\ pos' = pos + 1)
          => /\ (pc = "wait") <=> (pos > 0 /\ pos % numberOfConnectionsPerSecond = 0)
             /\ pc = "wait" => ~TimerAlive(timer)
             /\ i' = numberOfConnectionsPerSecond * WaitsBefore(pos')
             /\ now' >= WaitsBefore(pos') * WindowSeconds]_vars

C9_Witness ==
    /\ flag = "True"
    /\ Len(threads) = 12
    /\ i = 10
    /\ now = 2 * WindowSeconds

---------------------------------------------------------------------------

\* What a call in progress can do next
CallStep ==
    \/ SeqBegin \/ SeqEnd \/ SeqExit
    \/ LoopHead \/ WaitReturn \/ LoopExit \/ Join \/ JoinExit
    \/ \E k \in 1..Len(threads) : WorkerBegin(k) \/ WorkerEnd(k)
    \/ Tick

\* C10: every call of get_CIKs on identifiers ends by returning a dict, in either
\* mode: it is never stuck while it runs, and no failed lookup makes it raise.
C10_EveryBatchReturnsADict ==
    (ValidCall /\ AllStrings)
        => /\ pc \in {"seq", "seqfetch", "loop", "wait", "join"} => ENABLED CallStep
           /\ pc # "raised"

\* A call in progress can always take a step
CallNeverStuck ==
    pc \in {"seq", "seqfetch", "loop", "wait", "join"} => ENABLED CallStep

\* With every thread scheduled again and again, the concurrent call returns
FairSpec == Spec /\ WF_vars(CallStep)

ConcurrentCallReturns == (pc = "loop") ~> (pc = "complete")

---------------------------------------------------------------------------
(* The sequential mode *)

\* C11: with enableMultiThreading False the lookups run one after the other in the
\* order of the input: at most one is in flight, the lookup of position k+1 begins
\* only once the lookup of position k has returned and its value is stored, and
\* the call makes no Timer and no worker thread.
C11_SequentialModeFetchesInInputOrder ==
    (tickersIterable /\ flag = "False")
        => /\ threads = << >>
           /\ timer = NoTimer
           /\ fetchesInWindow = 0
           /\ pc \in {"seq", "seqfetch", "complete", "raised"}
           /\ pos \in 0..Len(tickers)
           /\ \A k \in 1..pos : output[tickers[k]] = get_CIK(tickers[k], server).val
           /\ Keys(output) = {tickers[k] : k \in 1..pos}
           /\ pc = "seq" => httpRequests = SumGets(tickers, pos)
           /\ pc = "seqfetch"
                => /\ pos < Len(tickers)
                   /\ httpRequests = SumGets(tickers, pos) + 1
           /\ pc = "complete" => pos = Len(tickers)

C11_Witness ==
    /\ flag = "False"
    /\ pc = "seqfetch"
    /\ pos = 2
    /\ tickers[1] # tickers[2]
    /\ Keys(output) = {tickers[1], tickers[2]}

\* C12: every get_CIK sends exactly one HTTP request, so a batch that has returned
\* has sent as many requests as it has identifiers.
C12_OneRequestPerLookup ==
    (pc = "complete" /\ AllStrings) => httpRequests = Len(tickers)

\* C13: two calls of get_CIKs in succession, on the same tickers with the same flag
\* against the same endpoint, end alike, with equal dicts where they return one;
\* the second call starts as the first did, with an empty dict, no thread, its
\* counters at 0 and a timer of its own.
C13_SecondCallEndsAsTheFirst ==
    (prev.kind # "none" /\ prev.flag = flag)
        => /\ pc = "complete" => prev.kind = "returned" /\ prev.output = output
           /\ pc = "raised" => prev.kind = "raised" /\ prev.exc = exc
           /\ (pc \in {"seq", "loop"} /\ pos = 0)
                => /\ output = EmptyDict
                   /\ threads = << >>
                   /\ i = 0 /\ j = 0
                   /\ httpRequests = 0 /\ fetchesInWindow = 0
                   /\ flag = "True" => timer.attr = "Thread" /\ now + timer.left = WindowSeconds
                   /\ flag = "False" => timer = NoTimer

C13_Witness ==
    /\ pc = "complete"
    /\ prev.kind = "returned"
    /\ prev.flag = "True"
    /\ flag = "True"
    /\ Len(tickers) > MaxShort
    /\ Keys(output) = Symbols

---------------------------------------------------------------------------
(* The windows of the dispatching loop *)

\* The step starts a timer
TimerStarted == timer'.attr = "Thread" /\ timer' # timer /\ timer'.left > timer.left

\* C14: a timer is started only by the call itself and, after that, only once the
\* timer before it has run its full second: with numberOfConnectionsPerSecond
\* threads started since the timer was started the dispatcher is in timer.wait(),
\* starts no thread while that timer runs, and starts the next timer only when it
\* has ended, one window or more after the previous start.
C14_WindowsOpenOneWindowApart ==
    /\ []((tickersIterable /\ flag = "True")
            => /\ pc = "wait" => pos - i = numberOfConnectionsPerSecond
               /\ timer.attr = "Thread"
               /\ windowOpenedAt = now - (WindowSeconds - timer.left))
    /\ [][/\ (pc = "wait" /\ TimerAlive(timer)) => Len(threads') = Len(threads) /\ pos' = pos
          /\ TimerStarted
               => \/ pc = "idle"
                  \/ /\ pc = "wait"
                     /\ ~TimerAlive(timer)
                     /\ now - windowOpenedAt >= WindowSeconds
                     /\ windowOpenedAt' - windowOpenedAt >= WindowSeconds]_vars

C14_Witness ==
    /\ pc = "wait"
    /\ TimerAlive(timer)
    /\ windowOpenedAt = 1
    /\ pos = 2 * numberOfConnectionsPerSecond

\* C15: the thread started right after a wait counts as the first of the new
\* window: i is set to its position before it is started, so that thread and
\* numberOfConnectionsPerSecond - 1 more are started before the next wait; the
\* threads started since the timer was started number from 0 to
\* numberOfConnectionsPerSecond throughout.
C15_ResetCountsTheTriggeringAdmission ==
    /\ []((tickersIterable /\ flag = "True")
            => /\ pos - i \in 0..numberOfConnectionsPerSecond
               /\ Len(threads) = pos
               /\ i % numberOfConnectionsPerSecond = 0
               /\ i > 0 => pos - i >= 1
               /\ pc = "wait" => pos - i = numberOfConnectionsPerSecond /\ pos < Len(tickers))
    /\ [][TimerStarted /\ pc = "wait"
            => /\ i' = pos
               /\ pos' = pos + 1
               /\ Len(threads') = Len(threads) + 1
               /\ pc' = "loop"]_vars

C15_Witness ==
    /\ pc = "wait"
    /\ i = numberOfConnectionsPerSecond
    /\ pos = 2 * numberOfConnectionsPerSecond
    /\ Len(threads) = pos
    /\ ~TimerAlive(timer)

\* The dispatching thread is inside timer.wait(), in the join of a sleeping thread
DispatcherBlocked == pc = "wait" /\ TimerWaitBlocks(timer)

\* C16 as claimed: the dispatching loop creates the threads of the whole input
\* without ever blocking on the window.
C16_DispatcherNeverBlocksOnTheWindow ==
    (tickersIterable /\ flag = "True") => ~DispatcherBlocked

\* C16 as the code has it: the threads are started one per ticker in the order of
\* the input, at most numberOfConnectionsPerSecond of them per timer, by a
\* dispatching loop that itself blocks in timer.wait() and can then do nothing
\* else; a thread, once started, never waits for the window: it can call get_CIK
\* whatever the timer does, and then store its value.
C16_DispatcherWaitsAndWorkersDoNot ==
    (tickersIterable /\ flag = "True")
        => /\ Len(threads) = pos
           /\ \A k \in 1..Len(threads) : threads[k].ticker = tickers[k]
           /\ pos - i <= numberOfConnectionsPerSecond
           /\ pc \in {"join", "complete"} => pos = Len(tickers)
           /\ DispatcherBlocked => ~ENABLED (LoopHead \/ WaitReturn \/ LoopExit)
           /\ \A k \in 1..Len(threads) :
                 /\ threads[k].state = "ready" => ENABLED WorkerBegin(k)
                 /\ threads[k].state = "fetching" => ENABLED WorkerEnd(k)

C16_Witness ==
    /\ DispatcherBlocked
    /\ \E k \in 1..Len(threads) : threads[k].state = "done"
    /\ \E k \in 1..Len(threads) : threads[k].state = "ready"

---------------------------------------------------------------------------
(* The shared dict *)

\* The threads that store their value in this step
Writers == {k \in 1..Len(threads) : threads[k].state = "fetching" /\ threads'[k].state = "done"}

---------------------------------------------------------------------------
(* Thread starts in a short span *)

\* The position at which the timer before the running one was started
PreviousWindowStart == IF i = 0 THEN 0 ELSE i - numberOfConnectionsPerSecond

\* C18 as claimed: in a span shorter than one window no more than
\* 2 * numberOfConnectionsPerSecond - 1 threads are started, however long the
\* dispatcher takes between two of them (no second has to pass between the thread
\* starts counted by admitsSinceTick).
C18_AtMostNineAdmissionsInAShortSpan ==
    (tickersIterable /\ flag = "True")
        => admitsSinceTick <= 2 * numberOfConnectionsPerSecond - 1

\* C18 as the code has it: a span shorter than one window holds at most one start
\* of a timer (two starts are a window apart), so the threads started in it are
\* those of two successive timers at most, and these number up to
\* 2 * numberOfConnectionsPerSecond.
C18_AtMostTenAdmissionsInAShortSpan ==
    /\ []((tickersIterable /\ flag = "True")
            => /\ admitsSinceTick <= 2 * numberOfConnectionsPerSecond
               /\ pos - PreviousWindowStart <= 2 * numberOfConnectionsPerSecond
               /\ pos - i <= numberOfConnectionsPerSecond)
    /\ [][(TimerStarted /\ pc = "wait")
            => /\ windowOpenedAt' - windowOpenedAt >= WindowSeconds
               /\ i' - i = numberOfConnectionsPerSecond]_vars

C18_Witness ==
    /\ flag = "True"
    /\ admitsSinceTick = 2 * numberOfConnectionsPerSecond
    /\ now = WindowSeconds
    /\ TimerAlive(timer)

---------------------------------------------------------------------------
(* The Timer under any sequence of calls: a client thread makes a Timer and   *)
(* calls start(seconds), wait() and startAndWait(seconds) in any order, up to *)
(* MaxCalls calls with up to MaxSeconds on the timer; j counts the calls.     *)

MaxCalls == 4

MaxSeconds == 2

InitTimer ==
    /\ tickersIterable = TRUE
    /\ tickers = << >>
    /\ server = [s \in Symbols |-> "match"]
    /\ flag = "none"
    /\ pc = "client"
    /\ exc = "none"
    /\ output = EmptyDict
    /\ threads = << >>
    /\ timer = TimerInit
    /\ pos = 0
    /\ i = 0
    /\ j = 0
    /\ now = 0
    /\ fetchesInWindow = 0
    /\ httpRequests = 0
    /\ prev = NoCall
    /\ windowOpenedAt = 0
    /\ admitsSinceTick = 0

\* timer.start(seconds)
ClientStart(seconds) ==
    /\ pc = "client"
    /\ j < MaxCalls
    /\ j' = j + 1
    /\ timer' = TimerStart(timer, seconds)
    /\ windowOpenedAt' = now
    /\ UNCHANGED << tickers, tickersIterable, server, flag, pc, exc, output, threads,
                    pos, i, now, fetchesInWindow, httpRequests, prev, admitsSinceTick >>

\* timer.wait() is entered: it reads self._thread
ClientWait ==
    /\ pc = "client"
    /\ j < MaxCalls
    /\ j' = j + 1
    /\ IF TimerWaitRaises(timer)
         THEN pc' = "raised" /\ exc' = "AttributeError"
         ELSE pc' = "inwait" /\ UNCHANGED exc
    /\ UNCHANGED << tickers, tickersIterable, server, flag, output, threads, timer,
                    pos, i, now, fetchesInWindow, httpRequests, prev,
                    windowOpenedAt, admitsSinceTick >>

\* timer.wait() (or the wait() of startAndWait) returns
ClientWaitReturn ==
    /\ pc = "inwait"
    /\ ~TimerWaitBlocks(timer)
    /\ timer' = TimerWait(timer)
    /\ pc' = "client"
    /\ UNCHANGED << tickers, tickersIterable, server, flag, exc, output, threads,
                    pos, i, j, now, fetchesInWindow, httpRequests, prev,
                    windowOpenedAt, admitsSinceTick >>

\* timer.startAndWait(seconds): start(seconds), then wait() is entered
ClientStartAndWait(seconds) ==
    /\ pc = "client"
    /\ j < MaxCalls
    /\ j' = j + 1
    /\ timer' = TimerStart(timer, seconds)
    /\ windowOpenedAt' = now
    /\ pc' = "inwait"
    /\ UNCHANGED << tickers, tickersIterable, server, flag, exc, output, threads,
                    pos, i, now, fetchesInWindow, httpRequests, prev, admitsSinceTick >>

NextTimer ==
    \/ \E seconds \in 1..MaxSeconds : ClientStart(seconds)
    \/ ClientWait
    \/ ClientWaitReturn
    \/ \E seconds \in 1..MaxSeconds : ClientStartAndWait(seconds)
    \/ Tick

SpecTimer == InitTimer /\ [][NextTimer]_vars

\* C19: whatever start(), wait() and startAndWait() calls were made before,
\* wait() raises nothing: it blocks while the thread of the timer sleeps and
\* returns at once for a timer that has ended or was never started.
C19_WaitNeverRaises ==
    /\ pc # "raised"
    /\ exc = "none"
    /\ (pc = "inwait" /\ ~TimerAlive(timer)) => ENABLED ClientWaitReturn

\* What does hold: wait() raises only for a Timer whose last call before it was a
\* wait() that joined a thread
WaitRaisesOnlyAfterAWait ==
    /\ pc = "raised" => timer.attr = "deleted" /\ exc = "AttributeError"
    /\ (pc = "inwait" /\ ~TimerAlive(timer)) => ENABLED ClientWaitReturn
    /\ (pc = "inwait" /\ TimerAlive(timer)) => ~ENABLED ClientWaitReturn

---------------------------------------------------------------------------
(* The timer threads of a batch *)

\* sleep(seconds) of a timer thread comes to its end
FairGate == SpecGate /\ WF_vars(Tick)

====
